---- MODULE Spec2Model ----
(***************************************************************************)
(* Model of the multi-agent workflow of orennjii/code-agent:               *)
(*   src/workflow/workflow_state.py  WorkflowState (the Run State)         *)
(*   src/workflow/workflow_nodes.py  WorkflowNodes (the stage executors)   *)
(*   src/workflow/workflow_graph.py  WorkflowGraph (graph, routing,        *)
(*                                   execute)                              *)
(* One run of WorkflowGraph.execute is modelled.  The five agents are      *)
(* collaborators whose calls either return a result or raise; the model    *)
(* chooses their outcomes nondeterministically.                            *)
(*                                                                         *)
(* Strings stand for the source's literals:                                *)
(*   task names   "planning" = 规划, "coding" = 编码, "testing" = 测试,    *)
(*                "debugging" = 调试, "documenting" = 文档生成             *)
(*   errors       "<stage> failed" = f"规划失败: {e}" and so on            *)
(*   "None"       Python None for Optional[str] fields                     *)
(***************************************************************************)
EXTENDS Integers, Sequences, FiniteSets, TLC

VARIABLES
    max_iterations, \* WorkflowGraph.max_iterations (constructor argument)
    user_request,   \* execute's argument user_request
    workflow_id,    \* execute's argument / local workflow_id
    pc,             \* position of the run: "execute", a node name,
                    \* "route_after_testing", "route_after_debugging",
                    \* "END", "returned", "raised"
    state,          \* the WorkflowState of the run
    result,         \* the dict returned by execute
    trace,          \* history: the nodes executed so far, in order
    outcomes,       \* history: the collaborator outcome of each visit
    in_flight,      \* the node at pc has been entered and awaits its
                    \* collaborator's call (the run's only suspension point)
    structure,      \* what the last call of get_graph_structure returned
    agents,         \* the AgentState of the five agents of WorkflowNodes,
                    \* by the node that calls the agent
    run2            \* a second run of execute on the same WorkflowGraph:
                    \* its position, its WorkflowState, its visits so far

vars == <<max_iterations, user_request, workflow_id, pc, state, result,
          trace, outcomes, in_flight, structure, agents, run2>>

----------------------------------------------------------------------------
(* Bounds of the model *)

\* largest max_iterations tried
MaxIterBound == 2

\* the number of node visits of the second run that are followed
OtherRunLimit == 2

\* the graph driver's recursion limit (langgraph's default is 25): the
\* number of node executions after which ainvoke raises GraphRecursionError
RecursionLimit == 10

----------------------------------------------------------------------------
(* Values *)

Nodes == {"planning", "coding", "testing", "debugging", "documenting"}

\* user_request values: a string, or a value that is not a string
BadRequest == "<not a str>"
Requests == {"req", BadRequest}

\* workflow_id argument: given, or None
WorkflowIds == {"wf1", "None"}

NoPlan == [present |-> FALSE]
NoCode == [present |-> FALSE, code |-> "", status |-> "", iteration |-> 0]
NoTest == [present |-> FALSE, status |-> ""]
NoDebug == [present |-> FALSE, fixed_code |-> "", status |-> ""]
NoDoc == [present |-> FALSE, readme |-> ""]

\* collaborator outcomes ("raise": the call raises an exception)
PlannerOutcomes == {"ok", "raise"}
CoderOutcomes == {"code", "empty", "raise"}
TesterOutcomes == {"passed", "failed", "raise"}
DebuggerOutcomes == {"fixA", "fixB", "nofix", "raise"}
DocumenterOutcomes == {"ok", "raise"}

\* the dict an agent returns for an outcome
PlanResult(out) == [present |-> TRUE]
CodeResult(out) ==
    [present |-> TRUE, code |-> IF out = "code" THEN "code0" ELSE "",
     status |-> "generated", iteration |-> 0]
TestResult(out) == [present |-> TRUE, status |-> out]
DebugResult(out) ==
    IF out = "nofix"
    THEN [present |-> TRUE, fixed_code |-> "", status |-> "no_debugging_needed"]
    ELSE [present |-> TRUE, fixed_code |-> out, status |-> "fixed"]
DocResult(out) == [present |-> TRUE, readme |-> "readme"]

InSeq(x, s) == \E i \in 1..Len(s) : s[i] = x

\* AgentState(): the fields every agent's execute writes
NewAgentState == [status |-> "idle", current_task |-> "None"]

\* the first statement of every agent's execute:
\* update_state(status="working", current_task=task)
agent_call(a, task) == [a EXCEPT !.status = "working", !.current_task = task]

\* the end of an agent's execute: update_state(status="completed", ...) before
\* the return, update_state(status="error", ...) before the re-raise; the
\* debugger's early return (no_debugging_needed) writes nothing
agent_return(a, out) ==
    IF out = "raise" THEN [a EXCEPT !.status = "error"]
    ELSE IF out = "nofix" THEN a
    ELSE [a EXCEPT !.status = "completed"]

NoStructure == [returned |-> FALSE]

----------------------------------------------------------------------------
(* WorkflowState: workflow_state.py *)

\* WorkflowState(workflow_id=..., user_request=..., status=PENDING,
\*               max_iterations=...) with the field defaults
NewWorkflowState(wid, req, maxit) ==
    [workflow_id |-> wid,
     user_request |-> req,
     status |-> "pending",
     current_task |-> "None",
     completed_tasks |-> << >>,
     failed_tasks |-> << >>,
     planner_result |-> NoPlan,
     coder_result |-> NoCode,
     tester_result |-> NoTest,
     debugger_result |-> NoDebug,
     documenter_result |-> NoDoc,
     iteration_count |-> 0,
     max_iterations |-> maxit,
     last_error |-> "None",
     error_history |-> << >>,
     context |-> [plan |-> NoPlan, generated_code |-> NoCode,
                  test_result |-> NoTest, debug_result |-> NoDebug,
                  documentation |-> NoDoc],
     final_code |-> "None",
     final_documentation |-> "None"]

update_status(s, new_status) == [s EXCEPT !.status = new_status]

\* mutant: the membership test is missing
add_completed_task_always(s, task) ==
    [s EXCEPT !.completed_tasks = Append(@, task)]

add_completed_task(s, task) ==
    IF InSeq(task, s.completed_tasks) THEN s
    ELSE [s EXCEPT !.completed_tasks = Append(@, task)]

add_failed_task(s, task) ==
    IF InSeq(task, s.failed_tasks) THEN s
    ELSE [s EXCEPT !.failed_tasks = Append(@, task)]

\* mutant: the error is appended but last_error is not set
add_error_history_only(s, error) ==
    [s EXCEPT !.error_history = Append(@, error)]

\* mutant: the error is put at the head of the history
add_error_prepend(s, error) ==
    [s EXCEPT !.last_error = error, !.error_history = <<error>> \o @]

add_error(s, error) ==
    [s EXCEPT !.last_error = error, !.error_history = Append(@, error)]

\* mutant: the counter goes down
increment_iteration_down(s) == [s EXCEPT !.iteration_count = @ - 1]

increment_iteration(s) == [s EXCEPT !.iteration_count = @ + 1]

\* mutant: the ceiling test is off by one
can_continue_iteration_offbyone(s) == s.iteration_count <= s.max_iterations

can_continue_iteration(s) == s.iteration_count < s.max_iterations

set_context(s, key, value) == [s EXCEPT !.context[key] = value]

\* mutant: the coder's code is preferred to the debugger's
get_latest_code_coder_first(s) ==
    IF s.coder_result.present /\ s.coder_result.code # ""
    THEN s.coder_result.code
    ELSE IF s.debugger_result.present /\ s.debugger_result.fixed_code # ""
         THEN s.debugger_result.fixed_code
         ELSE "None"

get_latest_code(s) ==
    IF s.debugger_result.present /\ s.debugger_result.fixed_code # ""
    THEN s.debugger_result.fixed_code
    ELSE IF s.coder_result.present /\ s.coder_result.code # ""
         THEN s.coder_result.code
         ELSE "None"

get_test_status(s) ==
    IF s.tester_result.present THEN s.tester_result.status ELSE "not_tested"

\* mutant: the ceiling test is missing
needs_debugging_ignores_ceiling(s) ==
    /\ s.tester_result.present
    /\ s.tester_result.status = "failed"

needs_debugging(s) ==
    /\ s.tester_result.present
    /\ s.tester_result.status = "failed"
    /\ can_continue_iteration(s)

is_workflow_complete(s) ==
    \/ s.status = "completed"
    \/ s.status = "failed"
    \/ ~can_continue_iteration(s)

get_summary(s) ==
    [empty |-> FALSE,
     workflow_id |-> s.workflow_id,
     status |-> s.status,
     iteration_count |-> s.iteration_count,
     completed_tasks |-> Len(s.completed_tasks),
     failed_tasks |-> Len(s.failed_tasks),
     has_code |-> get_latest_code(s) # "None",
     test_status |-> get_test_status(s),
     has_documentation |-> s.documenter_result.present,
     last_error |-> s.last_error]

----------------------------------------------------------------------------
(* WorkflowNodes: workflow_nodes.py.  Each node is a function of the state *)
(* and of the outcome of its collaborator call.                            *)

\* mutant: the node does not write its status
enter_node_no_status(s, node) == [s EXCEPT !.current_task = node]

\* the first two statements of every node: the status becomes the node's own
\* value and current_task its label (the task names stand for the labels)
enter_node(s, node) == [update_status(s, node) EXCEPT !.current_task = node]

planning_node(s, out) ==
    LET s1 == enter_node(s, "planning")
    IN IF out # "raise"
       THEN add_completed_task(
                set_context([s1 EXCEPT !.planner_result = PlanResult(out)],
                            "plan", PlanResult(out)),
                "planning")
       ELSE add_failed_task(add_error(s1, "planning failed"), "planning")

\* mutant: the failure path sets the status failed
coding_node_sets_failed(s, out) ==
    LET s1 == enter_node(s, "coding")
    IN IF out # "raise"
       THEN add_completed_task(
                set_context([s1 EXCEPT !.coder_result = CodeResult(out)],
                            "generated_code", CodeResult(out)),
                "coding")
       ELSE update_status(
                add_failed_task(add_error(s1, "coding failed"), "coding"),
                "failed")

coding_node(s, out) ==
    LET s1 == enter_node(s, "coding")
    IN IF out # "raise"
       THEN add_completed_task(
                set_context([s1 EXCEPT !.coder_result = CodeResult(out)],
                            "generated_code", CodeResult(out)),
                "coding")
       ELSE add_failed_task(add_error(s1, "coding failed"), "coding")

\* mutant: the failure path records the completion too
testing_node_completes_on_failure(s, out) ==
    LET s1 == enter_node(s, "testing")
    IN IF out # "raise"
       THEN add_completed_task(
                set_context([s1 EXCEPT !.tester_result = TestResult(out)],
                            "test_result", TestResult(out)),
                "testing")
       ELSE add_failed_task(
                add_error(add_completed_task(s1, "testing"), "testing failed"),
                "testing")

testing_node(s, out) ==
    LET s1 == enter_node(s, "testing")
    IN IF out # "raise"
       THEN add_completed_task(
                set_context([s1 EXCEPT !.tester_result = TestResult(out)],
                            "test_result", TestResult(out)),
                "testing")
       ELSE add_failed_task(add_error(s1, "testing failed"), "testing")

\* mutant: the fixed code is not copied into coder_result
debugging_node_no_copy(s, out) ==
    LET s1 == enter_node(s, "debugging")
        s2 == set_context([s1 EXCEPT !.debugger_result = DebugResult(out)],
                          "debug_result", DebugResult(out))
    IN IF out # "raise"
       THEN increment_iteration(add_completed_task(s2, "debugging"))
       ELSE add_failed_task(add_error(s1, "debugging failed"), "debugging")

debugging_node(s, out) ==
    LET s1 == enter_node(s, "debugging")
        s2 == set_context([s1 EXCEPT !.debugger_result = DebugResult(out)],
                          "debug_result", DebugResult(out))
        fixed == [present |-> TRUE, code |-> DebugResult(out).fixed_code,
                  status |-> "fixed", iteration |-> s.iteration_count]
        s3 == IF DebugResult(out).fixed_code # ""
              THEN set_context([s2 EXCEPT !.coder_result = fixed],
                               "generated_code", fixed)
              ELSE s2
    IN IF out # "raise"
       THEN increment_iteration(add_completed_task(s3, "debugging"))
       ELSE add_failed_task(add_error(s1, "debugging failed"), "debugging")

\* mutant: the final outputs are written on the failure path too
documenting_node_writes_on_failure(s, out) ==
    LET s1 == [enter_node(s, "documenting") EXCEPT
                  !.final_code = get_latest_code(s),
                  !.final_documentation = ""]
        s2 == set_context([s1 EXCEPT !.documenter_result = DocResult(out)],
                          "documentation", DocResult(out))
        s3 == [s2 EXCEPT !.final_code = get_latest_code(s2),
                         !.final_documentation = DocResult(out).readme]
    IN IF out # "raise"
       THEN update_status(add_completed_task(s3, "documenting"), "completed")
       ELSE add_failed_task(add_error(s1, "documenting failed"), "documenting")

documenting_node(s, out) ==
    LET s1 == enter_node(s, "documenting")
        s2 == set_context([s1 EXCEPT !.documenter_result = DocResult(out)],
                          "documentation", DocResult(out))
        s3 == [s2 EXCEPT !.final_code = get_latest_code(s2),
                         !.final_documentation = DocResult(out).readme]
    IN IF out # "raise"
       THEN update_status(add_completed_task(s3, "documenting"), "completed")
       ELSE add_failed_task(add_error(s1, "documenting failed"), "documenting")

should_debug(s) == needs_debugging(s)

\* mutant: the cycle goes on when the tests passed
should_continue_iteration_on_pass(s) ==
    /\ s.tester_result.present
    /\ s.tester_result.status = "passed"
    /\ can_continue_iteration(s)

should_continue_iteration(s) == needs_debugging(s) /\ can_continue_iteration(s)

should_generate_documentation(s) ==
    s.tester_result.present /\ s.tester_result.status = "passed"

----------------------------------------------------------------------------
(* WorkflowGraph: workflow_graph.py *)

\* mutant: the structure is computed from the run in progress
get_graph_structure_live ==
    [returned |-> TRUE,
     nodes |-> trace,
     edges |-> << <<"planning", "coding">>, <<"coding", "testing">>,
                  <<"testing", "debugging">>, <<"testing", "documenting">>,
                  <<"debugging", "testing">>, <<"debugging", "documenting">>,
                  <<"documenting", "END">> >>,
     conditional_edges |->
         << <<"testing", <<"debugging", "documenting", "end">> >>,
            <<"debugging", <<"testing", "documenting", "end">> >> >>,
     entry_point |-> IF pc \in Nodes THEN pc ELSE "planning",
     description |-> "LangGraph multi-agent workflow"]

get_graph_structure ==
    [returned |-> TRUE,
     nodes |-> <<"planning", "coding", "testing", "debugging", "documenting">>,
     edges |-> << <<"planning", "coding">>, <<"coding", "testing">>,
                  <<"testing", "debugging">>, <<"testing", "documenting">>,
                  <<"debugging", "testing">>, <<"debugging", "documenting">>,
                  <<"documenting", "END">> >>,
     conditional_edges |->
         << <<"testing", <<"debugging", "documenting", "end">> >>,
            <<"debugging", <<"testing", "documenting", "end">> >> >>,
     entry_point |-> "planning",
     description |-> "LangGraph multi-agent workflow"]

route_after_testing(s) ==
    IF s.status = "failed" THEN "end"
    ELSE IF ~can_continue_iteration(s) THEN "documenting"
    ELSE IF should_debug(s) THEN "debugging"
    ELSE IF should_generate_documentation(s) THEN "documenting"
    ELSE "end"

\* mutant: the last branch ends the run, as in the routing after testing
route_after_debugging_end(s) ==
    IF s.status = "failed" THEN "end"
    ELSE IF ~can_continue_iteration(s) THEN "documenting"
    ELSE IF should_continue_iteration(s) THEN "testing"
    ELSE "end"

route_after_debugging(s) ==
    IF s.status = "failed" THEN "end"
    ELSE IF ~can_continue_iteration(s) THEN "documenting"
    ELSE IF should_continue_iteration(s) THEN "testing"
    ELSE "documenting"

\* the mapping of a conditional edge: "end" is langgraph's END
Target(r) == IF r = "end" THEN "END" ELSE r

\* mutant: every run that did not fail counts as a success
is_success_not_failed(s) == s.status # "failed"

\* the success flag of the result: final_state.status == COMPLETED
is_success(s) == s.status = "completed"

\* the dict execute returns on the normal path
NormalResult(s) ==
    [returned |-> TRUE,
     success |-> is_success(s),
     error |-> "None",
     workflow_id |-> s.workflow_id,
     status |-> s.status,
     final_code |-> s.final_code,
     final_documentation |-> s.final_documentation,
     summary |-> get_summary(s),
     iteration_count |-> s.iteration_count,
     completed_tasks |-> s.completed_tasks,
     failed_tasks |-> s.failed_tasks,
     error_history |-> s.error_history]

\* mutant: the handler reports an id of its own
FaultResult_fresh_id(wid, error_msg) ==
    [returned |-> TRUE,
     success |-> FALSE,
     error |-> error_msg,
     workflow_id |-> "uuid4b",
     status |-> "failed",
     final_code |-> "None",
     final_documentation |-> "None",
     summary |-> [empty |-> TRUE],
     iteration_count |-> 0,
     completed_tasks |-> << >>,
     failed_tasks |-> << >>,
     error_history |-> <<error_msg>>]

\* the dict execute returns from its exception handler
FaultResult(wid, error_msg) ==
    [returned |-> TRUE,
     success |-> FALSE,
     error |-> error_msg,
     workflow_id |-> wid,
     status |-> "failed",
     final_code |-> "None",
     final_documentation |-> "None",
     summary |-> [empty |-> TRUE],
     iteration_count |-> 0,
     completed_tasks |-> << >>,
     failed_tasks |-> << >>,
     error_history |-> <<error_msg>>]

NoResult == [returned |-> FALSE]

\* the second run before its execute is called
Run2Idle ==
    [pc |-> "execute", in_flight |-> FALSE,
     state |-> NewWorkflowState("None", "None", 0), visits |-> 0]

Init ==
    /\ max_iterations \in 0..MaxIterBound
    /\ user_request \in Requests
    /\ workflow_id \in WorkflowIds
    /\ pc = "execute"
    /\ state = NewWorkflowState("None", "None", 0)
    /\ result = NoResult
    /\ trace = << >>
    /\ outcomes = << >>
    /\ in_flight = FALSE
    /\ structure = NoStructure
    /\ agents = [n \in Nodes |-> NewAgentState]
    /\ run2 = Run2Idle

\* execute, up to the call of graph.ainvoke: the id is generated when none
\* is given, and the initial state is constructed.  The construction is
\* pydantic-validated and raises when user_request is not a string; it
\* stands before the try block, so the exception leaves execute.
execute_start ==
    /\ pc = "execute"
    /\ LET wid == IF workflow_id = "None" THEN "uuid4" ELSE workflow_id
       IN /\ workflow_id' = wid
          /\ IF user_request = BadRequest
             THEN /\ pc' = "raised"
                  /\ UNCHANGED state
             ELSE /\ pc' = "planning"
                  /\ state' = NewWorkflowState(wid, user_request, max_iterations)
    /\ UNCHANGED <<max_iterations, user_request, result, trace, outcomes,
                   in_flight, structure, agents, run2>>

\* the graph driver starts the node at pc: the node sets status and
\* current_task and suspends in the call of its collaborator
node_enter ==
    /\ pc \in Nodes
    /\ ~in_flight
    /\ Len(trace) < RecursionLimit
    /\ state' = enter_node(state, pc)
    /\ agents' = [agents EXCEPT ![pc] = agent_call(@, state.user_request)]
    /\ in_flight' = TRUE
    /\ UNCHANGED <<max_iterations, user_request, workflow_id, pc, result,
                   trace, outcomes, structure, run2>>

\* the collaborator's call ends with outcome out: the node runs to its end
\* (s is the state it returns) and the driver follows the node's edge.  The
\* node functions repeat the two statements of node_enter, which changes
\* nothing the second time.
Visit(node, out, s, next) ==
    /\ pc = node
    /\ in_flight
    /\ in_flight' = FALSE
    /\ state' = s
    /\ trace' = Append(trace, node)
    /\ outcomes' = Append(outcomes, out)
    /\ pc' = next
    /\ agents' = [agents EXCEPT ![node] = agent_return(@, out)]
    /\ UNCHANGED <<max_iterations, user_request, workflow_id, result,
                   structure, run2>>

\* mutant: a failed planning visit ends the run
planning_wrapper_halting ==
    \E out \in PlannerOutcomes :
        Visit("planning", out, planning_node(state, out),
              IF out = "raise" THEN "END" ELSE "coding")

planning_wrapper ==
    \E out \in PlannerOutcomes :
        Visit("planning", out, planning_node(state, out), "coding")

\* mutant: the edge after coding leads to documenting
coding_wrapper_skips_testing ==
    \E out \in CoderOutcomes :
        Visit("coding", out, coding_node(state, out), "documenting")

coding_wrapper ==
    \E out \in CoderOutcomes :
        Visit("coding", out, coding_node(state, out), "testing")

testing_wrapper ==
    \E out \in TesterOutcomes :
        Visit("testing", out, testing_node(state, out), "route_after_testing")

debugging_wrapper ==
    \E out \in DebuggerOutcomes :
        Visit("debugging", out, debugging_node(state, out),
              "route_after_debugging")

documenting_wrapper ==
    \E out \in DocumenterOutcomes :
        Visit("documenting", out, documenting_node(state, out), "END")

\* the conditional edge after testing
RouteAfterTesting ==
    /\ pc = "route_after_testing"
    /\ pc' = Target(route_after_testing(state))
    /\ UNCHANGED <<max_iterations, user_request, workflow_id, state, result,
                   trace, outcomes, in_flight, structure, agents, run2>>

\* the conditional edge after debugging
RouteAfterDebugging ==
    /\ pc = "route_after_debugging"
    /\ pc' = Target(route_after_debugging(state))
    /\ UNCHANGED <<max_iterations, user_request, workflow_id, state, result,
                   trace, outcomes, in_flight, structure, agents, run2>>

\* the graph driver gives up when the recursion limit is reached: ainvoke
\* raises inside execute's try block and the handler builds the result
GraphRecursionError ==
    /\ pc \in Nodes
    /\ ~in_flight
    /\ Len(trace) >= RecursionLimit
    /\ result' = FaultResult(workflow_id, "workflow exception")
    /\ pc' = "returned"
    /\ UNCHANGED <<max_iterations, user_request, workflow_id, state, trace,
                   outcomes, in_flight, structure, agents, run2>>

\* ainvoke returned the final state: execute builds the result from it
execute_return ==
    /\ pc = "END"
    /\ result' = NormalResult(state)
    /\ pc' = "returned"
    /\ UNCHANGED <<max_iterations, user_request, workflow_id, state, trace,
                   outcomes, in_flight, structure, agents, run2>>

\* the caller cancels the task that runs execute while a collaborator's
\* call is in flight: asyncio raises CancelledError at the node's await.
\* CancelledError is a BaseException, so neither the node's nor execute's
\* "except Exception" catches it: it leaves execute, which returns nothing.
Cancel ==
    /\ pc \in Nodes
    /\ in_flight
    /\ pc' = "cancelled"
    /\ in_flight' = FALSE
    /\ UNCHANGED <<max_iterations, user_request, workflow_id, state, result,
                   trace, outcomes, structure, agents, run2>>

\* a call of get_graph_structure, at any time
GetGraphStructure ==
    /\ structure' = get_graph_structure
    /\ UNCHANGED <<max_iterations, user_request, workflow_id, pc, state,
                   result, trace, outcomes, in_flight, agents, run2>>

Next ==
    \/ execute_start
    \/ node_enter
    \/ Cancel
    \/ GetGraphStructure
    \/ planning_wrapper
    \/ coding_wrapper
    \/ testing_wrapper
    \/ debugging_wrapper
    \/ documenting_wrapper
    \/ RouteAfterTesting
    \/ RouteAfterDebugging
    \/ GraphRecursionError
    \/ execute_return

Spec == Init /\ [][Next]_vars

\* the driver runs a started run to its end
FairSpec == Spec /\ WF_vars(Next)

----------------------------------------------------------------------------
(* Two runs of execute on one WorkflowGraph.  Both use self.nodes, hence   *)
(* the same five agents; each has its own WorkflowState.  The second run   *)
(* takes the same steps as the first, written over the record run2, with   *)
(* the routing folded into the visit; it is followed for OtherRunLimit     *)
(* visits.                                                                 *)

NodeOutcomes(node) ==
    CASE node = "planning" -> PlannerOutcomes
      [] node = "coding" -> CoderOutcomes
      [] node = "testing" -> TesterOutcomes
      [] node = "debugging" -> DebuggerOutcomes
      [] node = "documenting" -> DocumenterOutcomes

NodeResult(node, s, out) ==
    CASE node = "planning" -> planning_node(s, out)
      [] node = "coding" -> coding_node(s, out)
      [] node = "testing" -> testing_node(s, out)
      [] node = "debugging" -> debugging_node(s, out)
      [] node = "documenting" -> documenting_node(s, out)

NextNode(node, s) ==
    CASE node = "planning" -> "coding"
      [] node = "coding" -> "testing"
      [] node = "testing" -> Target(route_after_testing(s))
      [] node = "debugging" -> Target(route_after_debugging(s))
      [] node = "documenting" -> "END"

Run1Vars == <<max_iterations, user_request, workflow_id, pc, state, result,
              trace, outcomes, in_flight, structure>>

run2_start ==
    /\ run2.pc = "execute"
    /\ pc # "execute"
    /\ run2' = [run2 EXCEPT !.pc = "planning",
                            !.state = NewWorkflowState("wf2", "req2",
                                                       max_iterations)]
    /\ UNCHANGED <<Run1Vars, agents>>

run2_enter ==
    /\ run2.pc \in Nodes
    /\ ~run2.in_flight
    /\ run2.visits < OtherRunLimit
    /\ run2' = [run2 EXCEPT !.in_flight = TRUE,
                            !.state = enter_node(@, run2.pc)]
    /\ agents' = [agents EXCEPT
                     ![run2.pc] = agent_call(@, run2.state.user_request)]
    /\ UNCHANGED Run1Vars

run2_visit ==
    /\ run2.pc \in Nodes
    /\ run2.in_flight
    /\ \E out \in NodeOutcomes(run2.pc) :
          LET s == NodeResult(run2.pc, run2.state, out)
          IN /\ run2' = [pc |-> NextNode(run2.pc, s), in_flight |-> FALSE,
                         state |-> s, visits |-> run2.visits + 1]
             /\ agents' = [agents EXCEPT ![run2.pc] = agent_return(@, out)]
    /\ UNCHANGED Run1Vars

ConcurrentInit ==
    /\ Init
    /\ max_iterations = 1
    /\ user_request = "req"
    /\ workflow_id = "wf1"

ConcurrentNext ==
    \/ Next
    \/ run2_start
    \/ run2_enter
    \/ run2_visit

ConcurrentSpec == ConcurrentInit /\ [][ConcurrentNext]_vars

----------------------------------------------------------------------------
(* The functions of a Run State, applied to every Run State of a bounded   *)
(* set rather than to the states one run reaches: the routing functions    *)
(* and, through the documenting node, get_latest_code.                     *)

Statuses == {"pending", "planning", "coding", "testing", "debugging",
             "documenting", "completed", "failed"}

RunStates(maxit) ==
    { [NewWorkflowState("wf1", "req", maxit) EXCEPT
           !.status = st, !.iteration_count = it, !.coder_result = cr,
           !.tester_result = tr, !.debugger_result = dr] :
        st \in Statuses, it \in 0..(MaxIterBound + 1),
        cr \in {NoCode, CodeResult("code"), CodeResult("empty")},
        tr \in {NoTest, TestResult("passed"), TestResult("failed")},
        dr \in {NoDebug, DebugResult("fixA"), DebugResult("nofix")} }

StateInit ==
    /\ max_iterations \in 0..MaxIterBound
    /\ user_request = "req"
    /\ workflow_id = "wf1"
    /\ pc \in {"route_after_testing", "route_after_debugging", "documenting"}
    /\ state \in RunStates(max_iterations)
    /\ result = NoResult
    /\ trace = IF pc = "route_after_testing" THEN <<"testing">>
               ELSE IF pc = "route_after_debugging" THEN <<"debugging">>
               ELSE << >>
    /\ outcomes = [i \in 1..Len(trace) |-> "any"]
    /\ in_flight = (pc = "documenting")
    /\ structure = NoStructure
    /\ agents = [n \in Nodes |-> NewAgentState]
    /\ run2 = Run2Idle

StateNext ==
    \/ RouteAfterTesting
    \/ RouteAfterDebugging
    \/ documenting_wrapper

StateSpec == StateInit /\ [][StateNext]_vars

----------------------------------------------------------------------------
(* History helpers *)

Visits(node) == Cardinality({i \in 1..Len(trace) : trace[i] = node})

LastNode == IF trace = << >> THEN "none" ELSE trace[Len(trace)]

LastOutcome == IF outcomes = << >> THEN "none" ELSE outcomes[Len(outcomes)]

\* the indices of the testing visits, and whether all of them reported failed
TestingVisits == {i \in 1..Len(trace) : trace[i] = "testing"}

FirstTesting == CHOOSE i \in TestingVisits : \A j \in TestingVisits : i <= j

\* the message a stage executor records when its collaborator raises
ErrorMessage(node) ==
    CASE node = "planning" -> "planning failed"
      [] node = "coding" -> "coding failed"
      [] node = "testing" -> "testing failed"
      [] node = "debugging" -> "debugging failed"
      [] node = "documenting" -> "documenting failed"

\* the run has stopped: ainvoke has returned or execute has
Stopped == pc \in {"END", "returned", "raised"}

----------------------------------------------------------------------------
(* Claims *)

\* C1: in every reachable state of a run, 0 <= iteration_count <=
\* max_iterations, for every max_iterations >= 0 and every sequence of
\* collaborator outcomes.
C1_IterationCountBounded ==
    /\ 0 <= state.iteration_count
    /\ state.iteration_count <= state.max_iterations
    /\ pc # "execute" /\ pc # "raised" => state.max_iterations = max_iterations

\* C1 witness: a debugging visit has just raised the counter to a ceiling
\* of 2.
C1_Witness ==
    /\ pc = "route_after_debugging"
    /\ state.max_iterations = 2
    /\ state.iteration_count = 2

\* C2 (as claimed): the testing<->debugging cycle ends after at most
\* max_iterations debugging visits, whatever the collaborators do.
C2_RepairVisitsBounded ==
    pc # "execute" => Visits("debugging") <= max_iterations

\* C3 (as claimed): when every testing visit reported failed, a run that has
\* stopped has visited debugging exactly max_iterations times, then
\* documenting, and has status completed with iteration_count =
\* max_iterations.
C3_AllVerifyFailed ==
    ( /\ pc \in {"END", "returned"}
      /\ TestingVisits # {}
      /\ \A i \in TestingVisits : outcomes[i] = "failed" )
    => /\ Visits("debugging") = max_iterations
       /\ LastNode = "documenting"
       /\ state.status = "completed"
       /\ state.iteration_count = max_iterations

\* C4 (as claimed): when the first testing visit reported passed, debugging
\* is never visited, iteration_count stays 0, and the run is planning,
\* coding, testing, documenting and ends with status completed.
C4_FirstVerifyPassed ==
    (TestingVisits # {} /\ outcomes[FirstTesting] = "passed")
    => /\ Visits("debugging") = 0
       /\ state.iteration_count = 0
       /\ pc \in {"END", "returned"} =>
             /\ trace = <<"planning", "coding", "testing", "documenting">>
             /\ state.status = "completed"

\* C5 (as claimed): the status in the result execute returns is completed
\* or failed.
C5_ReturnsTerminalStatus ==
    pc = "returned" => result.status \in {"completed", "failed"}

\* C6 (as claimed): a run that visited documenting stops with status
\* completed, whatever the documenter's outcome.
C6_DocumentingCompletes ==
    (Stopped /\ Visits("documenting") > 0) => state.status = "completed"

\* C7 (as claimed): no fault of execute (state construction, routing, graph
\* driver) reaches the caller as an exception; execute returns a result with
\* success false, status failed and the fault message in error_history.
C7_FaultsAreReturned ==
    /\ pc # "raised"
    /\ (pc = "returned" /\ result.error # "None") =>
          /\ result.success = FALSE
          /\ result.status = "failed"
          /\ InSeq(result.error, result.error_history)

\* C8: a stage visit whose collaborator raises appends the error message to
\* error_history, sets last_error to it, puts the stage in failed_tasks,
\* leaves completed_tasks as it was, leaves status at the stage's own value
\* and does not raise: the run goes on along the node's edge.
C8_CollaboratorFailureRecorded ==
    [][ (Len(trace') = Len(trace) + 1 /\ outcomes'[Len(outcomes')] = "raise")
        => LET node == trace'[Len(trace')] IN
           /\ state'.error_history =
                  Append(state.error_history, ErrorMessage(node))
           /\ state'.last_error = ErrorMessage(node)
           /\ InSeq(node, state'.failed_tasks)
           /\ state'.completed_tasks = state.completed_tasks
           /\ state'.status = node
           /\ state'.status # "failed"
           /\ pc' \in Nodes \cup {"route_after_testing",
                                  "route_after_debugging", "END"}
           /\ result' = NoResult ]_vars

\* C8 witness: the debugger has just raised in a debugging visit.
C8_Witness ==
    /\ pc = "route_after_debugging"
    /\ LastNode = "debugging"
    /\ LastOutcome = "raise"
    /\ state.last_error = "debugging failed"

\* C9: a collaborator failure in planning or coding does not halt the run:
\* the node executed next after a failed planning visit is coding, and after
\* a failed coding visit testing; the failure shows in failed_tasks and
\* error_history, and the status is not failed.
C9_FailureDoesNotHalt ==
    \A i \in 1..Len(trace) :
        (trace[i] \in {"planning", "coding"} /\ outcomes[i] = "raise")
        => LET next == IF trace[i] = "planning" THEN "coding" ELSE "testing"
           IN /\ IF Len(trace) > i THEN trace[i + 1] = next
                 ELSE pc \in {next, "cancelled"}
              /\ InSeq(trace[i], state.failed_tasks)
              /\ InSeq(ErrorMessage(trace[i]), state.error_history)
              /\ state.status # "failed"

\* C9 witness: planning and coding both failed and testing was executed.
C9_Witness ==
    /\ Len(trace) >= 3
    /\ outcomes[1] = "raise"
    /\ outcomes[2] = "raise"
    /\ trace[3] = "testing"

\* the decision list the claim gives for the routing after testing
ClaimedRouteAfterTesting(s) ==
    IF s.status = "failed" THEN "end"
    ELSE IF s.iteration_count >= s.max_iterations THEN "documenting"
    ELSE IF s.tester_result.present /\ s.tester_result.status = "failed"
         THEN "debugging"
    ELSE "documenting"

\* C10 (as claimed): the routing after a testing visit follows the decision
\* list: failed -> end; ceiling reached -> documenting; test result failed
\* -> debugging; otherwise -> documenting.
C10_RouteAfterTesting ==
    pc = "route_after_testing" =>
        route_after_testing(state) = ClaimedRouteAfterTesting(state)

\* the decision list the claim gives for the routing after debugging
ClaimedRouteAfterDebugging(s) ==
    IF s.status = "failed" THEN "end"
    ELSE IF s.iteration_count >= s.max_iterations THEN "documenting"
    ELSE IF /\ s.tester_result.present
            /\ s.tester_result.status = "failed"
            /\ s.iteration_count < s.max_iterations
         THEN "testing"
    ELSE "documenting"

\* C11: for every Run State, the routing after a debugging visit follows
\* the decision list: failed -> end; ceiling reached -> documenting;
\* needs_debugging() -> testing; otherwise -> documenting; and the routing
\* leaves the Run State as it is.
C11_RouteAfterDebugging ==
    [][ pc = "route_after_debugging"
        => /\ pc' = Target(ClaimedRouteAfterDebugging(state))
           /\ state' = state ]_vars

\* C11 witness: the last branch was taken: the test result is passed below
\* the ceiling, and the run was routed from debugging to documenting.
C11_Witness ==
    /\ pc = "documenting"
    /\ ~in_flight
    /\ LastNode = "debugging"
    /\ state.status = "debugging"
    /\ state.tester_result.status = "passed"
    /\ state.iteration_count < state.max_iterations

\* C12 (as claimed): every debugging visit increments iteration_count by
\* one, whatever the debugger's outcome: iteration_count is the number of
\* debugging visits completed so far.
C12_IterationCountsRepairVisits ==
    state.iteration_count = Visits("debugging")

\* C13: the success flag of the result execute returns is true exactly when
\* the status it reports is completed, and on the normal path that status
\* is the final status of the Run State.
C13_SuccessIffCompleted ==
    pc = "returned" =>
        /\ result.success <=> (result.status = "completed")
        /\ result.error = "None" => result.status = state.status

\* C13 witness: execute has returned a successful result after a repair.
C13_Witness ==
    /\ pc = "returned"
    /\ result.success
    /\ result.iteration_count = 1

NoDuplicates(s) == \A i, j \in 1..Len(s) : s[i] = s[j] => i = j

\* C14: completed_tasks and failed_tasks never hold a name twice, also when
\* a stage is visited several times, and adding a name that is already
\* present leaves the list unchanged.
C14_TasksHaveNoDuplicates ==
    /\ NoDuplicates(state.completed_tasks)
    /\ NoDuplicates(state.failed_tasks)
    /\ \A task \in Nodes :
          /\ InSeq(task, state.completed_tasks) =>
                add_completed_task(state, task).completed_tasks
                    = state.completed_tasks
          /\ InSeq(task, state.failed_tasks) =>
                add_failed_task(state, task).failed_tasks = state.failed_tasks

\* C14 witness: the tester returned in two testing visits and the debugger
\* raised in two debugging visits.
C14_Witness ==
    /\ Cardinality({i \in TestingVisits : outcomes[i] # "raise"}) >= 2
    /\ Cardinality({i \in 1..Len(trace) :
                       trace[i] = "debugging" /\ outcomes[i] = "raise"}) >= 2

\* what the claim says get_latest_code returns
ClaimedLatestCode(s) ==
    IF s.debugger_result.present /\ s.debugger_result.fixed_code # ""
    THEN s.debugger_result.fixed_code
    ELSE IF s.coder_result.present /\ s.coder_result.code # ""
         THEN s.coder_result.code
         ELSE "None"

\* C15: for every combination of the debugger and coder result slots being
\* present or absent, get_latest_code() is the debugger's fixed_code when
\* there is one, else the coder's code when there is one, else None; a
\* successful documenting visit stores that value as final_code.
C15_LatestCode ==
    /\ [](get_latest_code(state) = ClaimedLatestCode(state))
    /\ [][ (pc = "documenting" /\ in_flight /\ state'.status = "completed")
            => state'.final_code = ClaimedLatestCode(state) ]_vars

\* C15 witness: both slots hold a code, they differ, and the documenting
\* visit has stored the debugger's.
C15_Witness ==
    /\ pc = "END"
    /\ state.coder_result.code = "code0"
    /\ state.debugger_result.fixed_code = "fixA"
    /\ state.final_code = "fixA"

\* the edges the claim lists for the status
StatusEdges ==
    { <<"pending", "planning">>, <<"planning", "coding">>,
      <<"coding", "testing">>, <<"testing", "debugging">>,
      <<"testing", "documenting">>, <<"debugging", "testing">>,
      <<"debugging", "documenting">>, <<"documenting", "completed">> }

\* C16: while a node executes the status is that node; between nodes it is
\* the node executed last, or completed; and every change of the status
\* follows one of the edges pending->planning->coding->testing,
\* testing->debugging, testing->documenting, debugging->testing,
\* debugging->documenting, documenting->completed.
C16_StatusFollowsEdges ==
    /\ [](in_flight => state.status = pc)
    /\ [](pc \notin {"execute", "raised", "cancelled"} /\ ~in_flight =>
            state.status = IF trace = << >> THEN "pending"
                           ELSE IF state.status = "completed"
                                THEN "completed" ELSE LastNode)
    /\ [][ state'.status # state.status
            => <<state.status, state'.status>> \in StatusEdges ]_vars

\* C16 witness: the run is back in testing after a debugging visit.
C16_Witness ==
    /\ pc = "testing"
    /\ in_flight
    /\ state.status = "testing"
    /\ Visits("debugging") >= 1

\* C17: final_code and final_documentation are None until a documenting
\* visit succeeds; they are written only by a successful documenting visit,
\* final_code being get_latest_code() at that moment; and once the status
\* is completed no step changes any field of the Run State.
C17_FinalOutputs ==
    /\ [](state.status # "completed" =>
            state.final_code = "None" /\ state.final_documentation = "None")
    /\ [][ ( \/ state'.final_code # state.final_code
              \/ state'.final_documentation # state.final_documentation )
            => /\ pc = "documenting" /\ in_flight
               /\ outcomes'[Len(outcomes')] # "raise"
               /\ state'.final_code = get_latest_code(state)
               /\ state'.status = "completed" ]_vars
    /\ [][ state.status = "completed" => state' = state ]_vars

\* C17 witness: execute has returned after a documenting visit stored the
\* repaired code.
C17_Witness ==
    /\ pc = "returned"
    /\ state.status = "completed"
    /\ state.final_code = "fixB"
    /\ state.final_documentation = "readme"

\* C18 (as claimed): when a run is cancelled while a collaborator's call is
\* in flight, execute surfaces a failed or cancelled result to its caller.
C18_CancellationSurfacesResult ==
    pc = "cancelled" =>
        /\ result.returned
        /\ result.status \in {"failed", "cancelled"}

\* C19 (as claimed): two runs on one WorkflowGraph share no mutable
\* structure: while a call of a run is in flight, the agent it called is in
\* the state that run's call put it in, whatever the other run does.
C19_RunsShareNothing ==
    \A node \in Nodes :
        /\ (pc = node /\ in_flight) =>
              agents[node] = [status |-> "working",
                              current_task |-> state.user_request]
        /\ (run2.pc = node /\ run2.in_flight) =>
              agents[node] = [status |-> "working",
                              current_task |-> run2.state.user_request]

\* C20: get_graph_structure returns the same structure whenever it is
\* called, before, during and after a run: the five nodes, the entry point
\* planning, the seven edges and the two conditional edges; and a call
\* changes nothing else.
C20_GraphStructureStatic ==
    /\ [](structure.returned =>
            /\ structure.nodes = <<"planning", "coding", "testing",
                                   "debugging", "documenting">>
            /\ structure.entry_point = "planning"
            /\ {structure.edges[i] : i \in 1..Len(structure.edges)} =
                   { <<"planning", "coding">>, <<"coding", "testing">>,
                     <<"testing", "debugging">>, <<"testing", "documenting">>,
                     <<"debugging", "testing">>,
                     <<"debugging", "documenting">>,
                     <<"documenting", "END">> }
            /\ Len(structure.edges) = 7
            /\ structure.conditional_edges =
                   << <<"testing", <<"debugging", "documenting", "end">> >>,
                      <<"debugging", <<"testing", "documenting", "end">> >> >>)
    /\ [][ structure' # structure =>
              UNCHANGED <<max_iterations, user_request, workflow_id, pc,
                          state, result, trace, outcomes, in_flight, agents,
                          run2>> ]_vars

\* C20 witness: the structure was returned while a debugging visit is in
\* flight.
C20_Witness ==
    /\ structure.returned
    /\ pc = "debugging"
    /\ in_flight

\* C21: for every Run State, needs_debugging() is true exactly when the
\* tester result is present with status failed and iteration_count <
\* max_iterations, and can_continue_iteration() is true exactly when
\* iteration_count < max_iterations.
C21_NeedsDebugging ==
    /\ needs_debugging(state) <=>
          /\ state.tester_result.present
          /\ state.tester_result.status = "failed"
          /\ state.iteration_count < state.max_iterations
    /\ can_continue_iteration(state) <=>
          state.iteration_count < state.max_iterations

\* C21 witness: the routing after testing sent a Run State that needs
\* debugging to the debugging node.
C21_Witness ==
    /\ pc = "debugging"
    /\ LastNode = "testing"
    /\ state.status = "testing"
    /\ needs_debugging(state)
    /\ state.iteration_count = 1

\* C22: workflow_id, user_request and max_iterations of the Run State are
\* those execute was called with (the id generated when none was given) and
\* no node or routing step changes them; the workflow_id of the result is
\* that id, on the normal path and on the fault path.
C22_IdentityIsImmutable ==
    /\ [](pc \notin {"execute", "raised"} =>
            /\ state.workflow_id = workflow_id
            /\ state.user_request = user_request
            /\ state.max_iterations = max_iterations)
    /\ [][ pc # "execute" =>
              /\ state'.workflow_id = state.workflow_id
              /\ state'.user_request = state.user_request
              /\ state'.max_iterations = state.max_iterations
              /\ workflow_id' = workflow_id ]_vars
    /\ [][ pc = "execute" /\ workflow_id # "None" =>
              workflow_id' = workflow_id ]_vars
    /\ [](pc = "returned" =>
            /\ result.workflow_id = workflow_id
            /\ workflow_id # "None")

\* C22 witness: execute generated the id and returned from its exception
\* handler.
C22_Witness ==
    /\ pc = "returned"
    /\ result.error # "None"
    /\ result.workflow_id = "uuid4"

IsPrefix(s, t) == Len(s) <= Len(t) /\ SubSeq(t, 1, Len(s)) = s

\* C23: error_history only grows at its end (each state's error_history is
\* a prefix of the next state's); when it is not empty last_error is its
\* last element; last_error is None exactly when it is empty.
C23_ErrorHistoryAppendOnly ==
    /\ [][ IsPrefix(state.error_history, state'.error_history) ]_vars
    /\ [](state.error_history # << >> =>
            state.last_error = state.error_history[Len(state.error_history)])
    /\ [](state.last_error = "None" <=> state.error_history = << >>)

\* C23 witness: two different errors were recorded.
C23_Witness ==
    /\ Len(state.error_history) >= 2
    /\ state.error_history[1] # state.error_history[2]
    /\ state.last_error = state.error_history[Len(state.error_history)]

\* C24: a visit whose collaborator returned leaves the node's name in
\* completed_tasks and does not touch failed_tasks; a visit whose
\* collaborator raised leaves it in failed_tasks and does not touch
\* completed_tasks; a name is in both lists only when the node was visited
\* at least twice, once with a raise and once with a return.
C24_OneListPerVisit ==
    /\ [][ Len(trace') = Len(trace) + 1 =>
              LET node == trace'[Len(trace')]
                  out == outcomes'[Len(outcomes')]
              IN IF out # "raise"
                 THEN /\ InSeq(node, state'.completed_tasks)
                      /\ state'.failed_tasks = state.failed_tasks
                 ELSE /\ InSeq(node, state'.failed_tasks)
                      /\ state'.completed_tasks = state.completed_tasks ]_vars
    /\ [](\A node \in Nodes :
            (InSeq(node, state.completed_tasks)
                /\ InSeq(node, state.failed_tasks))
            => \E i, j \in 1..Len(trace) :
                  /\ trace[i] = node /\ outcomes[i] = "raise"
                  /\ trace[j] = node /\ outcomes[j] # "raise")

\* C24 witness: debugging is in both lists: the debugger raised in one visit
\* and returned in a later one.
C24_Witness ==
    /\ InSeq("debugging", state.completed_tasks)
    /\ InSeq("debugging", state.failed_tasks)
    /\ LastNode = "debugging"
    /\ LastOutcome # "raise"

\* C25: a successful debugging visit whose result has a fixed_code stores
\* that code in coder_result; from then on, whenever debugger_result holds a
\* fixed_code, coder_result's code equals it and get_latest_code() equals
\* coder_result's code.
C25_OneCurrentCode ==
    /\ [][ ( /\ pc = "debugging"
             /\ Len(trace') = Len(trace) + 1
             /\ outcomes'[Len(outcomes')] \in {"fixA", "fixB"} )
           => /\ state'.debugger_result.fixed_code = outcomes'[Len(outcomes')]
              /\ state'.coder_result.code = outcomes'[Len(outcomes')] ]_vars
    /\ [](state.debugger_result.present
             /\ state.debugger_result.fixed_code # "" =>
            /\ state.coder_result.present
            /\ state.coder_result.code = state.debugger_result.fixed_code
            /\ get_latest_code(state) = state.coder_result.code)

\* C25 witness: a second repair replaced the first repair's code and the
\* run went on.
C25_Witness ==
    /\ pc = "END"
    /\ state.debugger_result.fixed_code = "fixB"
    /\ state.coder_result.code = "fixB"
    /\ \E i \in 1..Len(outcomes) : outcomes[i] = "fixA"

\* C26 (as claimed): debugging is entered only right after a testing visit
\* whose tester returned, in that visit, a result with status failed; never
\* after a testing visit whose tester raised.
C26_RepairFollowsFailedVerify ==
    pc = "debugging" =>
        /\ LastNode = "testing"
        /\ LastOutcome = "failed"

\* C27: no node and no routing function writes the status failed: the
\* status of every reachable Run State is one of pending, planning, coding,
\* testing, debugging, documenting, completed; the first branch of the two
\* routing functions is never taken; a result with status failed comes only
\* from execute's exception handler.
C27_NoNodeWritesFailed ==
    /\ state.status \in {"pending", "planning", "coding", "testing",
                         "debugging", "documenting", "completed"}
    /\ pc = "route_after_testing" =>
          ~(route_after_testing(state) = "end" /\ state.status = "failed")
    /\ pc = "route_after_debugging" =>
          ~(route_after_debugging(state) = "end" /\ state.status = "failed")
    /\ (pc = "returned" /\ result.status = "failed") =>
          /\ result.error # "None"
          /\ result = FaultResult(workflow_id, result.error)

\* C27 witness: the tester raised and the routing after testing sees the
\* status testing.
C27_Witness ==
    /\ pc = "route_after_testing"
    /\ LastOutcome = "raise"
    /\ state.status = "testing"
    /\ InSeq("testing", state.failed_tasks)

\* C28: in a run, the routing after a debugging visit never returns end; it
\* returns documenting only when iteration_count has reached max_iterations;
\* below the ceiling it returns testing, the tester result still being the
\* failed one.
C28_RouteAfterDebuggingInRun ==
    [][ pc = "route_after_debugging" /\ pc' # pc =>
           /\ pc' \in {"testing", "documenting"}
           /\ pc' = "documenting" =>
                 state.iteration_count >= state.max_iterations
           /\ state.iteration_count < state.max_iterations =>
                 /\ pc' = "testing"
                 /\ state.tester_result.present
                 /\ state.tester_result.status = "failed" ]_vars

\* C28 witness: the debugger raised, the counter stayed below the ceiling
\* and the run was routed back to testing.
C28_Witness ==
    /\ pc = "testing"
    /\ ~in_flight
    /\ LastNode = "debugging"
    /\ LastOutcome = "raise"
    /\ state.iteration_count < state.max_iterations

\* C29: planning is the first node executed, coding the second, testing the
\* third; planning and coding are executed once, documenting at most once,
\* and nothing is executed after documenting.
C29_NodeOrder ==
    /\ Len(trace) >= 1 => trace[1] = "planning"
    /\ Len(trace) >= 2 => trace[2] = "coding"
    /\ Len(trace) >= 3 => trace[3] = "testing"
    /\ pc \in Nodes =>
          /\ Len(trace) = 0 => pc = "planning"
          /\ Len(trace) = 1 => pc = "coding"
          /\ Len(trace) = 2 => pc = "testing"
    /\ Visits("planning") <= 1
    /\ Visits("coding") <= 1
    /\ Visits("documenting") <= 1
    /\ \A i \in 1..Len(trace) :
          trace[i] = "documenting" =>
              /\ i = Len(trace)
              /\ pc \in {"END", "returned"}
    /\ pc = "END" =>
          /\ Visits("planning") = 1
          /\ Visits("coding") = 1
          /\ Visits("testing") >= 1

\* C29 witness: a run with one repair has ended after documenting.
C29_Witness ==
    /\ pc = "END"
    /\ trace = <<"planning", "coding", "testing", "debugging", "testing",
                 "documenting">>

\* C30: iteration_count never decreases; it is changed only by a debugging
\* visit; the two routing functions leave the whole Run State unchanged.
C30_OnlyDebuggingCounts ==
    [][ /\ state'.iteration_count >= state.iteration_count
        /\ state'.iteration_count # state.iteration_count =>
              /\ pc = "debugging"
              /\ trace' = Append(trace, "debugging")
        /\ pc \in {"route_after_testing", "route_after_debugging"} =>
              state' = state ]_vars

\* C30 witness: two debugging visits have raised the counter to 2 and the
\* routing sent the run to documenting.
C30_Witness ==
    /\ pc = "documenting"
    /\ ~in_flight
    /\ LastNode = "debugging"
    /\ state.iteration_count = 2

====
